---- MODULE Spec2Model ----
(***************************************************************************)
(* Webhook ingestion and subscription reconciliation of the Creem          *)
(* better-auth plugin: createWebhookHandler (webhook.ts) and the hooks it  *)
(* dispatches to (hooks.ts), over the storage adapter's two tables.        *)
(***************************************************************************)
EXTENDS Integers, Sequences, FiniteSets, TLC

VARIABLES
    options,        \* CreemOptions: webhookSecret, persistSubscriptions, callbacks
    subscriptions,  \* table creem_subscription, in insertion order
    users,          \* table user: id -> [creemCustomerId, hadTrial]
    phase,          \* "idle", or "handled" once a request has been answered
    request,        \* the request handled last
    response,       \* the value the handler returned for it
    log,            \* what the handler did for it, in order
    pre,            \* both tables as they were when that request arrived
    delivery,       \* number of requests handled so far
    redelivered,    \* the last request was a repeat of the one before it
    prevFaulty,     \* a storage call threw in the delivery the last one repeats
    inflight,       \* webhook requests being handled at once: where each one is
    creating,       \* create-checkout requests being handled: where each one is
    sent            \* the checkouts created at the provider, in order

vars == <<options, subscriptions, users, phase, request, response, log, pre,
          delivery, redelivered, prevFaulty, inflight, creating, sent>>

-----------------------------------------------------------------------------
(* Values *)

\* JavaScript undefined / null / an absent property
Undefined == "undefined"

\* An optional Date: <<>> is undefined, <<t>> a Date t seconds after the epoch
NoDate == <<>>

\* How many requests one behaviour delivers
MaxDeliveries == 1

SubIds == {"sub_1", "sub_2"}
CustomerIds == {"cus_1", "cus_2"}
ProductIds == {"prod_1", "prod_2"}
UserIds == {"user_1"}

Jan1 == "2025-01-01T00:00:00.000Z"
Feb1 == "2025-02-01T00:00:00.000Z"
Mar1 == "2025-03-01T00:00:00.000Z"

\* new Date(iso): the instant an ISO-8601 string names, in epoch seconds
NewDate(iso) ==
    CASE iso = Jan1 -> <<1735689600>>
      [] iso = Feb1 -> <<1738368000>>
      [] iso = Mar1 -> <<1740787200>>

\* The event types the handler's switch has a case for
StatusEventTypes ==
    {"subscription.active", "subscription.trialing", "subscription.canceled",
     "subscription.paid", "subscription.expired", "subscription.unpaid",
     "subscription.update", "subscription.past_due", "subscription.paused"}

KnownEventTypes ==
    {"checkout.completed", "refund.created", "dispute.created"} \cup StatusEventTypes

\* The entity discriminators isWebhookEntity accepts
EntityKinds ==
    {"checkout", "customer", "order", "product", "subscription", "refund",
     "dispute", "transaction"}

-----------------------------------------------------------------------------
(* utils.ts *)

\* generateSignature: hex HMAC-SHA256 of the payload under the secret, as the
\* (collision-free) pair it is a function of
generateSignature(payload, secret) == <<"hmac-sha256", secret, payload>>

\* isWebhookEntity
isWebhookEntity(body) == body.object \in EntityKinds

\* isWebhookEventEntity
isWebhookEventEntity(body) ==
    /\ body.eventType # Undefined
    /\ body.id # Undefined
    /\ body.created_at # <<>>
    /\ isWebhookEntity(body)

\* parseWebhookEvent: TRUE when it returns the event, FALSE when it throws
\* (JSON.parse on a body that is no JSON, or the shape check)
parseWebhookEvent(body) == body.json /\ isWebhookEventEntity(body)

\* ctx.json(body, {status}): the value the handler returns
Json(status, key, text) == [status |-> status, key |-> key, text |-> text]

NoResponse == Json(0, "", "")

-----------------------------------------------------------------------------
(* The handler's running context. Every storage call and every callback may  *)
(* return or throw, so each step yields the set of contexts it can end in.   *)

LogEntry(kind, name, arg) == [kind |-> kind, name |-> name, arg |-> arg]

Logged(c, kind, name, arg) == [c EXCEPT !.log = Append(@, LogEntry(kind, name, arg))]

\* logger.info / warn / error
Logger(c, level) == Logged(c, "logger", level, "")

\* A storage-adapter call that returned
Called(c, op) == Logged(c, "adapter", op, "ok")

\* Caught with no catch around the call: the error leaves the hook
CaughtNowhere(c, op) ==
    IF c.faults THEN {[Logged(c, "adapter", op, "throw") EXCEPT !.threw = TRUE]} ELSE {}

\* A storage-adapter call that threw: the enclosing catch logs the error
Caught(c, op) ==
    IF c.faults THEN {Logger(Logged(c, "adapter", op, "throw"), "error")} ELSE {}

\* FindBySubscriptionId querying the creemOrderId field
FindBySubscriptionIdInOrderId(subs, subId) ==
    IF \E i \in DOMAIN subs : subs[i].creemOrderId = subId
    THEN CHOOSE i \in DOMAIN subs :
            /\ subs[i].creemOrderId = subId
            /\ \A j \in DOMAIN subs : subs[j].creemOrderId = subId => i <= j
    ELSE 0

\* adapter.findOne on creem_subscription by creemSubscriptionId: the index
\* of the first record with it, 0 when none
FindBySubscriptionId(subs, subId) ==
    IF \E i \in DOMAIN subs : subs[i].creemSubscriptionId = subId
    THEN CHOOSE i \in DOMAIN subs :
            /\ subs[i].creemSubscriptionId = subId
            /\ \A j \in DOMAIN subs : subs[j].creemSubscriptionId = subId => i <= j
    ELSE 0

\* FindByCustomer taking the customer's first record whatever its product
FindByCustomerFirstOnly(subs, customerId, productId) ==
    LET mine == {i \in DOMAIN subs : subs[i].creemCustomerId = customerId}
    IN  IF mine # {} THEN CHOOSE i \in mine : \A j \in mine : i <= j ELSE 0

\* adapter.findMany by creemCustomerId, then find(productId) || [0]
FindByCustomer(subs, customerId, productId) ==
    LET mine == {i \in DOMAIN subs : subs[i].creemCustomerId = customerId}
        match == {i \in mine : subs[i].productId = productId}
    IN  IF match # {} THEN CHOOSE i \in match : \A j \in match : i <= j
        ELSE IF mine # {} THEN CHOOSE i \in mine : \A j \in mine : i <= j
        ELSE 0

\* Whether an update writes field f: the adapter skips undefined values
IsDefined(f, v) ==
    IF f \in {"periodStart", "periodEnd"} THEN v # NoDate
    ELSE IF f = "cancelAtPeriodEnd" THEN TRUE
    ELSE v # Undefined

\* AdapterUpdate writing the table back with the updated record only
AdapterUpdateKeepingMatchOnly(subs, id, data) ==
    SelectSeq([i \in DOMAIN subs |->
                  [f \in DOMAIN subs[i] |->
                      IF f \in DOMAIN data /\ IsDefined(f, data[f]) THEN data[f] ELSE subs[i][f]]],
              LAMBDA rec : rec.id = id)

\* adapter.update on creem_subscription where id = id
AdapterUpdate(subs, id, data) ==
    [i \in DOMAIN subs |->
        IF subs[i].id = id
        THEN [f \in DOMAIN subs[i] |->
                IF f \in DOMAIN data /\ IsDefined(f, data[f]) THEN data[f] ELSE subs[i][f]]
        ELSE subs[i]]

\* adapter.create on creem_subscription: a fresh id, and the schema's defaults
AdapterCreate(subs, data) ==
    Append(subs,
        [id |-> Len(subs) + 1,
         productId |-> data.productId,
         referenceId |-> data.referenceId,
         creemCustomerId |-> data.creemCustomerId,
         creemSubscriptionId |-> data.creemSubscriptionId,
         creemOrderId |-> data.creemOrderId,
         status |-> IF data.status = Undefined THEN "pending" ELSE data.status,
         periodStart |-> data.periodStart,
         periodEnd |-> data.periodEnd,
         cancelAtPeriodEnd |-> FALSE])

\* options.persistSubscriptions !== false
shouldPersist == options.persistSubscriptions

-----------------------------------------------------------------------------
(* hooks.ts: updateSubscriptionFromEvent *)

\* PeriodFrom keeping a stored date over the event's
PeriodFromStoredFirst(iso, stored) ==
    IF stored # NoDate THEN stored
    ELSE IF iso # Undefined THEN NewDate(iso)
    ELSE stored

\* The date an update writes: the event's when it carries one, else the stored
PeriodFrom(iso, stored) == IF iso # Undefined THEN NewDate(iso) ELSE stored

\* CancelFlag clearing the flag for every status but scheduled_cancel
CancelFlagClearedOtherwise(status, stored) == status = "scheduled_cancel"

\* cancelAtPeriodEnd of updateData
CancelFlag(status, stored) ==
    IF status = "scheduled_cancel" THEN TRUE
    ELSE IF status = "canceled" THEN FALSE
    ELSE stored

\* updateData without creemSubscriptionId
UpdateDataWithoutSubscriptionId(sub, d, status) ==
    [status |-> status,
     creemCustomerId |-> d.customer,
     periodStart |-> PeriodFrom(d.start, sub.periodStart),
     periodEnd |-> PeriodFrom(d.end, sub.periodEnd),
     cancelAtPeriodEnd |-> CancelFlag(status, sub.cancelAtPeriodEnd)]

\* updateData carrying the event's product id as well
UpdateDataWithProduct(sub, d, status) ==
    [status |-> status,
     productId |-> d.product,
     creemSubscriptionId |-> d.subId,
     creemCustomerId |-> d.customer,
     periodStart |-> PeriodFrom(d.start, sub.periodStart),
     periodEnd |-> PeriodFrom(d.end, sub.periodEnd),
     cancelAtPeriodEnd |-> CancelFlag(status, sub.cancelAtPeriodEnd)]

\* updateData leaving the status of a record that is no longer active as stored
UpdateDataOnActiveOnly(sub, d, status) ==
    [status |-> IF sub.status # "active" THEN sub.status ELSE status,
     creemSubscriptionId |-> d.subId,
     creemCustomerId |-> d.customer,
     periodStart |-> PeriodFrom(d.start, sub.periodStart),
     periodEnd |-> PeriodFrom(d.end, sub.periodEnd),
     cancelAtPeriodEnd |-> CancelFlag(status, sub.cancelAtPeriodEnd)]

\* updateData
UpdateData(sub, d, status) ==
    [status |-> status,
     creemSubscriptionId |-> d.subId,
     creemCustomerId |-> d.customer,
     periodStart |-> PeriodFrom(d.start, sub.periodStart),
     periodEnd |-> PeriodFrom(d.end, sub.periodEnd),
     cancelAtPeriodEnd |-> CancelFlag(status, sub.cancelAtPeriodEnd)]

\* WriteSubscription creating the record when none was found
WriteSubscriptionOrCreate(c, i, d, status) ==
    IF i = 0
    THEN {Logger([Called(c, "sub.create") EXCEPT
                    !.subs = AdapterCreate(@,
                        [productId |-> d.product, referenceId |-> d.referenceId,
                         creemCustomerId |-> d.customer, creemSubscriptionId |-> d.subId,
                         creemOrderId |-> Undefined, status |-> status,
                         periodStart |-> NoDate, periodEnd |-> NoDate])],
                 "info")}
    ELSE Caught(c, "sub.update")
         \cup {Logger([Called(c, "sub.update") EXCEPT
                    !.subs = AdapterUpdate(@, c.subs[i].id, UpdateData(c.subs[i], d, status))],
                "info")}

\* The end of updateSubscriptionFromEvent, for the record found at index i
WriteSubscription(c, i, d, status) ==
    IF i = 0 THEN {Logger(c, "warn")}
    ELSE Caught(c, "sub.update")
         \cup {Logger([Called(c, "sub.update") EXCEPT
                    !.subs = AdapterUpdate(@, c.subs[i].id, UpdateData(c.subs[i], d, status))],
                "info")}

\* updateSubscriptionFromEvent creating the record it does not find
updateSubscriptionFromEventOrCreate(c, d, status) ==
    IF ~shouldPersist THEN {Logger(c, "info")}
    ELSE IF d.referenceId = Undefined THEN {Logger(c, "warn")}
    ELSE Caught(c, "sub.findOne")
         \cup LET c1 == Called(c, "sub.findOne")
                  byId == FindBySubscriptionId(c.subs, d.subId)
              IN  IF byId = 0 /\ d.customer # Undefined
                  THEN Caught(c1, "sub.findMany")
                       \cup WriteSubscriptionOrCreate(Called(c1, "sub.findMany"),
                                FindByCustomer(c.subs, d.customer, d.product), d, status)
                  ELSE WriteSubscriptionOrCreate(c1, byId, d, status)

\* updateSubscriptionFromEvent without the test of metadata.referenceId
updateSubscriptionFromEventUnreferenced(c, d, status) ==
    IF ~shouldPersist THEN {Logger(c, "info")}
    ELSE Caught(c, "sub.findOne")
         \cup LET c1 == Called(c, "sub.findOne")
                  byId == FindBySubscriptionId(c.subs, d.subId)
              IN  IF byId = 0 /\ d.customer # Undefined
                  THEN Caught(c1, "sub.findMany")
                       \cup WriteSubscription(Called(c1, "sub.findMany"),
                                FindByCustomer(c.subs, d.customer, d.product), d, status)
                  ELSE WriteSubscription(c1, byId, d, status)

updateSubscriptionFromEvent(c, d, status) ==
    IF ~shouldPersist THEN {Logger(c, "info")}
    ELSE IF d.referenceId = Undefined THEN {Logger(c, "warn")}
    ELSE Caught(c, "sub.findOne")
         \cup LET c1 == Called(c, "sub.findOne")
                  byId == FindBySubscriptionId(c.subs, d.subId)
              IN  IF byId = 0 /\ d.customer # Undefined
                  THEN Caught(c1, "sub.findMany")
                       \cup WriteSubscription(Called(c1, "sub.findMany"),
                                FindByCustomer(c.subs, d.customer, d.product), d, status)
                  ELSE WriteSubscription(c1, byId, d, status)

\* markUserAsHadTrial without the test of user.hadTrial
markUserAsHadTrialUnguarded(c, d) ==
    IF ~shouldPersist THEN {c}
    ELSE IF d.referenceId = Undefined THEN {Logger(c, "warn")}
    ELSE Caught(c, "user.findOne")
         \cup LET c1 == Called(c, "user.findOne")
              IN  IF d.referenceId \notin DOMAIN c.users THEN {Logger(c1, "warn")}
                  ELSE Caught(c1, "user.update")
                       \cup {Logger([Called(c1, "user.update") EXCEPT
                                        !.users[d.referenceId].hadTrial = TRUE], "info")}

\* markUserAsHadTrial without the persistSubscriptions check
markUserAsHadTrialAlways(c, d) ==
    IF d.referenceId = Undefined THEN {Logger(c, "warn")}
    ELSE Caught(c, "user.findOne")
         \cup LET c1 == Called(c, "user.findOne")
              IN  IF d.referenceId \notin DOMAIN c.users THEN {Logger(c1, "warn")}
                  ELSE IF c.users[d.referenceId].hadTrial THEN {c1}
                  ELSE Caught(c1, "user.update")
                       \cup {Logger([Called(c1, "user.update") EXCEPT
                                        !.users[d.referenceId].hadTrial = TRUE], "info")}

\* markUserAsHadTrial
markUserAsHadTrial(c, d) ==
    IF ~shouldPersist THEN {c}
    ELSE IF d.referenceId = Undefined THEN {Logger(c, "warn")}
    ELSE Caught(c, "user.findOne")
         \cup LET c1 == Called(c, "user.findOne")
              IN  IF d.referenceId \notin DOMAIN c.users THEN {Logger(c1, "warn")}
                  ELSE IF c.users[d.referenceId].hadTrial THEN {c1}
                  ELSE Caught(c1, "user.update")
                       \cup {Logger([Called(c1, "user.update") EXCEPT
                                        !.users[d.referenceId].hadTrial = TRUE], "info")}

\* ResolvedStatus with every hook passing the payload's status
ResolvedStatusFromPayload(eventType, d) ==
    CASE eventType = "subscription.expired" -> "unpaid"
      [] eventType = "subscription.past_due" -> "unpaid"
      [] OTHER -> d.status

\* The status each subscription hook passes to updateSubscriptionFromEvent
ResolvedStatus(eventType, d) ==
    CASE eventType = "subscription.active" -> "active"
      [] eventType = "subscription.trialing" -> "trialing"
      [] eventType = "subscription.canceled" -> "canceled"
      [] eventType = "subscription.paid" -> d.status
      [] eventType = "subscription.expired" -> "unpaid"
      [] eventType = "subscription.unpaid" -> "unpaid"
      [] eventType = "subscription.update" -> d.status
      [] eventType = "subscription.past_due" -> "unpaid"
      [] eventType = "subscription.paused" -> "paused"

\* onSubscriptionActive ... onSubscriptionPaused
\* onSubscriptionEvent running the trial guard only after an update that succeeded
onSubscriptionEventGuardWhenUpdated(c, eventType, d) ==
    LET updated == updateSubscriptionFromEvent(c, d, ResolvedStatus(eventType, d))
        wrote(c1) == \E i \in DOMAIN c1.log :
                        c1.log[i] = [kind |-> "adapter", name |-> "sub.update", arg |-> "ok"]
    IN  IF eventType = "subscription.trialing"
        THEN UNION {IF wrote(c1) THEN markUserAsHadTrial(c1, d) ELSE {c1} : c1 \in updated}
        ELSE updated

onSubscriptionEvent(c, eventType, d) ==
    LET updated == updateSubscriptionFromEvent(c, d, ResolvedStatus(eventType, d))
    IN  IF eventType = "subscription.trialing"
        THEN UNION {markUserAsHadTrial(c1, d) : c1 \in updated}
        ELSE updated

-----------------------------------------------------------------------------
(* hooks.ts: onCheckoutCompleted *)

\* subscriptionUpdate without the embedded subscription's status
CheckoutDataWithoutStatus(d) ==
    [productId |-> IF d.product = Undefined THEN "" ELSE d.product,
     referenceId |-> d.referenceId,
     creemCustomerId |-> d.customer,
     creemSubscriptionId |-> d.subId,
     creemOrderId |-> d.order,
     status |-> Undefined,
     periodStart |-> IF d.start # Undefined THEN NewDate(d.start) ELSE NoDate,
     periodEnd |-> IF d.end # Undefined THEN NewDate(d.end) ELSE NoDate]

\* subscriptionUpdate
CheckoutData(d) ==
    [productId |-> IF d.product = Undefined THEN "" ELSE d.product,
     referenceId |-> d.referenceId,
     creemCustomerId |-> d.customer,
     creemSubscriptionId |-> d.subId,
     creemOrderId |-> d.order,
     status |-> d.status,
     periodStart |-> IF d.start # Undefined THEN NewDate(d.start) ELSE NoDate,
     periodEnd |-> IF d.end # Undefined THEN NewDate(d.end) ELSE NoDate]

\* The inner try: set the user's creemCustomerId when it has none
CheckoutUserStep(c, d) ==
    Caught(c, "user.findOne")
    \cup LET c1 == Called(c, "user.findOne")
         IN  IF /\ d.referenceId \in DOMAIN c.users
                 /\ c.users[d.referenceId].creemCustomerId = Undefined
             THEN Caught(c1, "user.update")
                  \cup {Logger([Called(c1, "user.update") EXCEPT
                                   !.users[d.referenceId].creemCustomerId = d.customer],
                               "info")}
             ELSE {c1}

\* The subscription part: update the record with this subscription id, or create one
CheckoutSubscriptionStep(c, d) ==
    IF d.subId = Undefined \/ d.order = Undefined THEN {c}
    ELSE Caught(c, "sub.findOne")
         \cup LET c1 == Called(c, "sub.findOne")
                  i == FindBySubscriptionId(c.subs, d.subId)
              IN  IF i # 0
                  THEN Caught(c1, "sub.update")
                       \cup {Logger([Called(c1, "sub.update") EXCEPT
                                !.subs = AdapterUpdate(@, c.subs[i].id, CheckoutData(d))],
                             "info")}
                  ELSE Caught(c1, "sub.create")
                       \cup {Logger([Called(c1, "sub.create") EXCEPT
                                !.subs = AdapterCreate(@, CheckoutData(d))], "info")}

\* onCheckoutCompleted with one try block around both parts: a throw of the
\* user lookup or update ends the hook
onCheckoutCompletedOneTry(c, d) ==
    IF ~shouldPersist THEN {Logger(c, "info")}
    ELSE IF d.customer = Undefined THEN {Logger(c, "warn")}
    ELSE IF d.referenceId = Undefined THEN {Logger(c, "warn")}
    ELSE LET first == CheckoutUserStep(c, d)
             thrown == {c1 \in first : \E i \in DOMAIN c1.log : c1.log[i].arg = "throw"}
         IN  thrown \cup UNION {CheckoutSubscriptionStep(c1, d) : c1 \in first \ thrown}

onCheckoutCompleted(c, d) ==
    IF ~shouldPersist THEN {Logger(c, "info")}
    ELSE IF d.customer = Undefined THEN {Logger(c, "warn")}
    ELSE IF d.referenceId = Undefined THEN {Logger(c, "warn")}
    ELSE UNION {CheckoutSubscriptionStep(c1, d) : c1 \in CheckoutUserStep(c, d)}

-----------------------------------------------------------------------------
(* webhook.ts: createWebhookHandler *)

\* The reason a case passes to options.onGrantAccess; "" when it does not call it
GrantReason(eventType) ==
    CASE eventType = "subscription.active" -> "subscription_active"
      [] eventType = "subscription.trialing" -> "subscription_trialing"
      [] eventType = "subscription.paid" -> "subscription_paid"
      [] OTHER -> ""

\* RevokeReason with the subscription.paused case calling no access callback
RevokeReasonWithoutPaused(eventType) ==
    CASE eventType = "subscription.expired" -> "subscription_expired"
      [] OTHER -> ""

\* The reason a case passes to options.onRevokeAccess; "" when it does not call it
RevokeReason(eventType) ==
    CASE eventType = "subscription.expired" -> "subscription_expired"
      [] eventType = "subscription.paused" -> "subscription_paused"
      [] OTHER -> ""

\* The access callback of a case, with its reason
AccessSignal(eventType) ==
    IF GrantReason(eventType) # ""
    THEN [name |-> "onGrantAccess", reason |-> GrantReason(eventType)]
    ELSE IF RevokeReason(eventType) # ""
    THEN [name |-> "onRevokeAccess", reason |-> RevokeReason(eventType)]
    ELSE [name |-> "none", reason |-> ""]

\* The event-specific callback of each case
EventCallback(eventType) ==
    CASE eventType = "checkout.completed" -> "onCheckoutCompleted"
      [] eventType = "refund.created" -> "onRefundCreated"
      [] eventType = "dispute.created" -> "onDisputeCreated"
      [] eventType = "subscription.active" -> "onSubscriptionActive"
      [] eventType = "subscription.trialing" -> "onSubscriptionTrialing"
      [] eventType = "subscription.canceled" -> "onSubscriptionCanceled"
      [] eventType = "subscription.paid" -> "onSubscriptionPaid"
      [] eventType = "subscription.expired" -> "onSubscriptionExpired"
      [] eventType = "subscription.unpaid" -> "onSubscriptionUnpaid"
      [] eventType = "subscription.update" -> "onSubscriptionUpdate"
      [] eventType = "subscription.past_due" -> "onSubscriptionPastDue"
      [] eventType = "subscription.paused" -> "onSubscriptionPaused"

AllCallbacks ==
    {"onGrantAccess", "onRevokeAccess"} \cup {EventCallback(t) : t \in KnownEventTypes}

\* The hook a case awaits first
RunHook(c, body) ==
    IF body.eventType = "checkout.completed" THEN onCheckoutCompleted(c, body)
    ELSE IF body.eventType \in StatusEventTypes
         THEN onSubscriptionEvent(c, body.eventType, body)
    ELSE {c}

\* Invoke with each callback in a try of its own: a callback is called also
\* after an earlier one threw
InvokeShielded(c, name, arg) ==
    IF name \notin options.callbacks THEN {c}
    ELSE LET called == Logged(c, "callback", name, arg)
         IN  {called}
             \cup (IF c.throws
                   THEN {[Logged(called, "threw", name, "") EXCEPT !.threw = TRUE]}
                   ELSE {})

\* Invoke with a throw of the callback undoing the writes of the hook
InvokeRollingBack(c, name, arg) ==
    IF c.threw \/ name \notin options.callbacks THEN {c}
    ELSE LET called == Logged(c, "callback", name, arg)
         IN  {called}
             \cup (IF c.throws
                   THEN {[Logged(called, "threw", name, "") EXCEPT
                            !.threw = TRUE, !.subs = subscriptions, !.users = users]}
                   ELSE {})

\* await options.<callback>?.(...): a configured callback is called, and
\* returns or throws; once one has thrown the rest of the case is skipped
Invoke(c, name, arg) ==
    IF c.threw \/ name \notin options.callbacks THEN {c}
    ELSE LET called == Logged(c, "callback", name, arg)
         IN  {called}
             \cup (IF c.throws
                   THEN {[Logged(called, "threw", name, "") EXCEPT !.threw = TRUE]}
                   ELSE {})

\* RunCase calling the access callback only when the hook updated a record
RunCaseSignalWhenUpdated(c, body) ==
    LET signal == AccessSignal(body.eventType)
        hooked == RunHook(c, body)
        updated(c1) == \E i \in DOMAIN c1.log :
                           c1.log[i] = [kind |-> "adapter", name |-> "sub.update", arg |-> "ok"]
        signalled == IF signal.name = "none" THEN hooked
                     ELSE UNION {IF updated(c1)
                                 THEN Invoke(c1, signal.name, signal.reason)
                                 ELSE {c1} : c1 \in hooked}
    IN  UNION {Invoke(c2, EventCallback(body.eventType), body.eventType) : c2 \in signalled}

\* One case of the switch: the hook, the access callback, the event callback
RunCase(c, body) ==
    LET signal == AccessSignal(body.eventType)
        hooked == RunHook(c, body)
        signalled == IF signal.name = "none" THEN hooked
                     ELSE UNION {Invoke(c1, signal.name, signal.reason) : c1 \in hooked}
    IN  UNION {Invoke(c2, EventCallback(body.eventType), body.eventType) : c2 \in signalled}

\* Dispatch with the default case falling into the subscription.paused case
DispatchDefaultAsPaused(c, body) ==
    IF body.eventType \in KnownEventTypes THEN RunCase(c, body)
    ELSE RunCase(c, [body EXCEPT !.eventType = "subscription.paused"])

\* The switch: a case for each known event type; the default case's
\* ctx.json(...) builds a value that is dropped
Dispatch(c, body) ==
    IF body.eventType \in KnownEventTypes THEN RunCase(c, body) ELSE {c}

\* SignatureValid comparing only when both a secret and a header are there
SignatureValidWhenPresent(req) ==
    \/ options.webhookSecret = Undefined
    \/ req.signature = <<>>
    \/ generateSignature(req.body, options.webhookSecret) = req.signature

\* The signature check: a secret is configured and the header equals the
\* HMAC of the body under it
SignatureValid(req) ==
    /\ options.webhookSecret # Undefined
    /\ generateSignature(req.body, options.webhookSecret) = req.signature

\* Answer returning the default case's 400 for an unknown event type
AnswerUnknownAs400(c, eventType) ==
    IF c.threw
    THEN [c EXCEPT !.resp = Json(500, "error", "Failed to process webhook")]
    ELSE IF eventType \notin KnownEventTypes
    THEN [c EXCEPT !.resp = Json(400, "error", "Unknown event type")]
    ELSE [c EXCEPT !.resp = Json(200, "message", "Webhook received")]

\* What the handler returns once the switch is over, or from its catch
Answer(c, eventType) ==
    IF c.threw
    THEN [c EXCEPT !.resp = Json(500, "error", "Failed to process webhook")]
    ELSE [c EXCEPT !.resp = Json(200, "message", "Webhook received")]

\* The handler: the contexts it can end in, each with the value it returns.
\* faults: storage calls may throw; throws: callbacks may throw.
Handler(req, faults, throws) ==
    LET c0 == [subs |-> subscriptions, users |-> users, log |-> <<>>,
               faults |-> faults, throws |-> throws, threw |-> FALSE,
               resp |-> NoResponse]
    IN  IF ~req.present
        THEN {[c0 EXCEPT !.resp = Json(400, "error", "Request is required")]}
        ELSE IF ~SignatureValid(req)
        THEN {[c0 EXCEPT !.resp = Json(400, "error", "Invalid signature")]}
        ELSE LET c1 == Logged(c0, "parse", "parseWebhookEvent", "")
             IN  IF ~parseWebhookEvent(req.body)
                 THEN {[c1 EXCEPT !.resp = Json(500, "error", "Failed to process webhook")]}
                 ELSE {Answer(c2, req.body.eventType) : c2 \in Dispatch(c1, req.body)}

-----------------------------------------------------------------------------
(* Requests *)

\* A JSON body that is an event envelope around one entity. subId, status,
\* start and end are those of the subscription the entity is or embeds.
Body(eventType, object, subId, customer, product, referenceId, status, start, end, order) ==
    [json |-> TRUE, eventType |-> eventType, id |-> "evt_1", created_at |-> <<1>>,
     object |-> object, subId |-> subId, customer |-> customer, product |-> product,
     referenceId |-> referenceId, status |-> status, start |-> start, end |-> end,
     order |-> order]

ReferenceIds == UserIds \cup {Undefined}

\* The billing period an event carries: none, or start and end
EventPeriods == {<<Undefined, Undefined>>, <<Feb1, Mar1>>, <<Undefined, Mar1>>}

\* The status field of a subscription.<state> event's payload
PayloadStatuses(eventType) ==
    CASE eventType \in {"subscription.paid", "subscription.update"} ->
            {"active", "scheduled_cancel"}
      [] eventType = "subscription.active" -> {"active"}
      [] eventType = "subscription.trialing" -> {"trialing"}
      [] eventType = "subscription.canceled" -> {"canceled"}
      [] eventType = "subscription.expired" -> {"expired"}
      [] eventType = "subscription.unpaid" -> {"unpaid"}
      [] eventType = "subscription.past_due" -> {"past_due"}
      [] eventType = "subscription.paused" -> {"paused"}

StatusBodies ==
    UNION {{Body(t, "subscription", s, cu, p, r, st, pd[1], pd[2], Undefined) :
                s \in SubIds, cu \in CustomerIds, p \in ProductIds,
                r \in ReferenceIds, st \in PayloadStatuses(t), pd \in EventPeriods} :
           t \in StatusEventTypes}

CheckoutBodies ==
    {Body("checkout.completed", "checkout", s, cu, p, r, st, pd[1], pd[2], o) :
        s \in SubIds \cup {Undefined}, cu \in CustomerIds \cup {Undefined},
        p \in ProductIds, r \in ReferenceIds, st \in {"active", "trialing"},
        pd \in {<<Undefined, Undefined>>, <<Feb1, Mar1>>}, o \in {"ord_1", Undefined}}

OtherBodies ==
    {Body("refund.created", "refund", Undefined, "cus_1", Undefined, Undefined,
          "succeeded", Undefined, Undefined, "ord_1"),
     Body("dispute.created", "dispute", Undefined, "cus_1", Undefined, Undefined,
          "pending", Undefined, Undefined, "ord_1"),
     Body("subscription.scheduled_cancel", "subscription", "sub_1", "cus_1", "prod_1",
          "user_1", "scheduled_cancel", Undefined, Undefined, Undefined)}

WellFormed == Body("subscription.active", "subscription", "sub_1", "cus_1", "prod_1",
                   "user_1", "active", Undefined, Undefined, Undefined)

MalformedBodies ==
    {[WellFormed EXCEPT !.json = FALSE],
     [WellFormed EXCEPT !.eventType = Undefined],
     [WellFormed EXCEPT !.id = Undefined],
     [WellFormed EXCEPT !.created_at = <<>>],
     [WellFormed EXCEPT !.object = Undefined],
     [WellFormed EXCEPT !.object = "invoice"]}

\* Events whose payload carries a status other than the one their type names
MislabelledBodies ==
    {Body(t, "subscription", "sub_1", "cus_1", "prod_1", "user_1", "past_due",
          Undefined, Undefined, Undefined) :
        t \in {"subscription.active", "subscription.trialing", "subscription.canceled",
               "subscription.unpaid", "subscription.paused"}}

\* An event whose eventType is the empty string
EmptyTypeBody == [WellFormed EXCEPT !.eventType = ""]

Bodies ==
    StatusBodies \cup MislabelledBodies \cup CheckoutBodies \cup OtherBodies
    \cup MalformedBodies \cup {EmptyTypeBody}

\* headers.get("creem-signature") of a request without the header
NoHeader == <<>>

\* What a sender who does not hold the secret can put in the header: nothing,
\* the HMAC under another secret, the HMAC the provider made for another body
ForgedSignatures(body) ==
    {NoHeader,
     generateSignature(body, "whsec_other"),
     generateSignature([body EXCEPT !.id = "evt_0"], "whsec_1")}

\* The bodies such a sender posts: one of each event type, and the malformed
ForgedBodies ==
    {b \in Bodies : /\ b.subId \in {"sub_1", Undefined}
                    /\ b.customer = "cus_1" /\ b.product \in {"prod_1", Undefined}
                    /\ b.referenceId \in {"user_1", Undefined} /\ b.end = Undefined}

-----------------------------------------------------------------------------
(* Requests handled at once *)

\* The webhook requests, and the create-checkout requests, the host serves at once
Workers == {"w1", "w2"}
Creators == {"k1"}

\* A webhook request before it arrives. found: what the last lookup of a
\* subscription returned, <<>> or <<record>>; threw: a storage call of it threw;
\* prior: the requests answered before this one arrived; userWrites: the
\* adapter.update calls on user it has made
IdleWorker ==
    [pc |-> "idle", body |-> WellFormed, found |-> <<>>, threw |-> FALSE,
     prior |-> {}, userWrites |-> 0]

\* A create-checkout request before it arrives
IdleCreator ==
    [pc |-> "idle", user |-> Undefined, metadataSkipTrial |-> Undefined,
     userHadTrial |-> FALSE, lookup |-> "none", status |-> 0,
     afterTrialing |-> FALSE, afterTrialGuard |-> FALSE]

-----------------------------------------------------------------------------
(* The state machine *)

NoRequest == [present |-> FALSE, body |-> WellFormed, signature |-> NoHeader]

Tables == [subs |-> subscriptions, users |-> users]

\* The tables of a fresh installation: no subscription, the host's users
FreshTables ==
    [subs |-> <<>>,
     users |-> [u \in UserIds |-> [creemCustomerId |-> Undefined, hadTrial |-> FALSE]]]

\* The first checkout.completed of user_1, and the tables once it is handled
FirstCheckout ==
    Body("checkout.completed", "checkout", "sub_1", "cus_1", "prod_1", "user_1",
         "active", Jan1, Feb1, "ord_1")

SeededTables ==
    LET c0 == [subs |-> FreshTables.subs, users |-> FreshTables.users, log |-> <<>>,
               faults |-> FALSE, throws |-> FALSE, threw |-> FALSE, resp |-> NoResponse]
        c == CHOOSE c2 \in UNION {CheckoutSubscriptionStep(c1, FirstCheckout) :
                                    c1 \in CheckoutUserStep(c0, FirstCheckout)} : TRUE
    IN  [subs |-> c.subs, users |-> c.users]

Init ==
    /\ options \in [webhookSecret : {"whsec_1", Undefined},
                     persistSubscriptions : BOOLEAN,
                     callbacks : {AllCallbacks, {}}]
    /\ \E t \in {FreshTables, SeededTables} :
            /\ subscriptions = t.subs
            /\ users = t.users
    /\ phase = "idle"
    /\ request = NoRequest
    /\ response = NoResponse
    /\ log = <<>>
    /\ pre = Tables
    /\ delivery = 0
    /\ redelivered = FALSE
    /\ prevFaulty = FALSE
    /\ inflight = [w \in Workers |-> IdleWorker]
    /\ creating = [k \in Creators |-> IdleCreator]
    /\ sent = <<>>

\* A storage call threw while the logged request was handled
Faulty(l) == \E i \in DOMAIN l : l[i].kind = "adapter" /\ l[i].arg = "throw"

\* One run of the handler on req
Handle(req, faults, throws) ==
    \E out \in Handler(req, faults, throws) :
        /\ subscriptions' = out.subs
        /\ users' = out.users
        /\ response' = out.resp
        /\ log' = out.log
        /\ request' = req
        /\ pre' = Tables
        /\ phase' = "handled"
        /\ UNCHANGED <<options, inflight, creating, sent>>

\* The provider posts an event to /creem/webhook, signed with the shared secret
Deliver ==
    /\ phase = "idle" /\ delivery < MaxDeliveries
    /\ \E body \in Bodies :
            Handle([present |-> TRUE, body |-> body,
                    signature |-> generateSignature(body, "whsec_1")], TRUE, TRUE)
    /\ delivery' = delivery + 1
    /\ redelivered' = FALSE /\ prevFaulty' = FALSE

\* Someone without the secret posts to /creem/webhook
DeliverForged ==
    /\ phase = "idle" /\ delivery < MaxDeliveries
    /\ \E body \in ForgedBodies :
         \E sig \in ForgedSignatures(body) :
            Handle([present |-> TRUE, body |-> body, signature |-> sig], TRUE, TRUE)
    /\ delivery' = delivery + 1
    /\ redelivered' = FALSE /\ prevFaulty' = FALSE

\* The endpoint is invoked without a request object
DeliverNothing ==
    /\ phase = "idle" /\ delivery < MaxDeliveries
    /\ Handle(NoRequest, TRUE, TRUE)
    /\ delivery' = delivery + 1
    /\ redelivered' = FALSE /\ prevFaulty' = FALSE

\* The provider delivers the event it delivered last once more (at-least-once
\* delivery), right after the first delivery was answered; this time the
\* storage serves every call
Redeliver ==
    /\ phase = "handled" /\ ~redelivered
    /\ request.present
    /\ Handle(request, FALSE, TRUE)
    /\ redelivered' = TRUE
    /\ prevFaulty' = Faulty(log)
    /\ UNCHANGED delivery

\* The response is out and the request's context is gone
Complete ==
    /\ phase = "handled"
    /\ phase' = "idle"
    /\ request' = NoRequest
    /\ response' = NoResponse
    /\ log' = <<>>
    /\ pre' = Tables
    /\ redelivered' = FALSE /\ prevFaulty' = FALSE
    /\ UNCHANGED <<options, subscriptions, users, delivery, inflight, creating, sent>>

Next == Deliver \/ DeliverForged \/ DeliverNothing \/ Redeliver \/ Complete

Spec == Init /\ [][Next]_vars

-----------------------------------------------------------------------------
(* The webhook on an installation whose customers hold several subscriptions *)

\* An earlier checkout.completed of user_1
EarlierCheckout(subId, customer, product, order) ==
    Body("checkout.completed", "checkout", subId, customer, product, "user_1",
         "active", Jan1, Feb1, order)

\* The tables after three checkouts, each creating its record
TablesAfter(first, second, third) ==
    [subs |-> AdapterCreate(AdapterCreate(AdapterCreate(<<>>, CheckoutData(first)),
                                          CheckoutData(second)),
                            CheckoutData(third)),
     users |-> [u \in UserIds |-> [creemCustomerId |-> first.customer, hadTrial |-> FALSE]]]

\* cus_1 holds prod_2 once and prod_1 twice; or cus_2 holds prod_1 and cus_1
\* holds prod_1 twice. sub_1 is recorded, sub_2 is not.
ManyRecordsTables ==
    {TablesAfter(EarlierCheckout("sub_0", "cus_1", "prod_2", "ord_0"),
                 EarlierCheckout("sub_1", "cus_1", "prod_1", "ord_1"),
                 EarlierCheckout("sub_9", "cus_1", "prod_1", "ord_9")),
     TablesAfter(EarlierCheckout("sub_0", "cus_2", "prod_1", "ord_0"),
                 EarlierCheckout("sub_1", "cus_1", "prod_1", "ord_1"),
                 EarlierCheckout("sub_9", "cus_1", "prod_1", "ord_9"))}

InitManyRecords ==
    /\ options \in [webhookSecret : {"whsec_1"},
                     persistSubscriptions : BOOLEAN,
                     callbacks : {AllCallbacks}]
    /\ \E t \in ManyRecordsTables :
            /\ subscriptions = t.subs
            /\ users = t.users
    /\ phase = "idle"
    /\ request = NoRequest
    /\ response = NoResponse
    /\ log = <<>>
    /\ pre = Tables
    /\ delivery = 0
    /\ redelivered = FALSE
    /\ prevFaulty = FALSE
    /\ inflight = [w \in Workers |-> IdleWorker]
    /\ creating = [k \in Creators |-> IdleCreator]
    /\ sent = <<>>

ManyRecords == InitManyRecords /\ [][Next]_vars

-----------------------------------------------------------------------------
(* Webhook requests handled at once: one step for each awaited storage call *)

\* The events that arrive while others are being handled: two checkouts of
\* user_1 under different customers, and the life of subscription sub_1
ConcurrentBodies ==
    {FirstCheckout,
     Body("checkout.completed", "checkout", "sub_2", "cus_2", "prod_1", "user_1",
          "active", Undefined, Undefined, "ord_1"),
     Body("subscription.trialing", "subscription", "sub_1", "cus_1", "prod_1", "user_1",
          "trialing", Jan1, Feb1, Undefined),
     Body("subscription.update", "subscription", "sub_1", "cus_1", "prod_1", "user_1",
          "scheduled_cancel", Feb1, Mar1, Undefined),
     Body("subscription.active", "subscription", "sub_1", "cus_1", "prod_1", "user_1",
          "active", Jan1, Feb1, Undefined),
     [Body("subscription.paid", "subscription", "sub_1", "cus_1", "prod_1", "user_1",
           "active", Feb1, Mar1, Undefined) EXCEPT !.created_at = <<3>>],
     [Body("subscription.paused", "subscription", "sub_1", "cus_1", "prod_1", "user_1",
           "paused", Undefined, Undefined, Undefined) EXCEPT !.created_at = <<2>>],
     [Body("subscription.canceled", "subscription", "sub_1", "cus_1", "prod_1", "user_1",
           "canceled", Undefined, Undefined, Undefined) EXCEPT !.created_at = <<4>>]}

IsCheckout(body) == body.eventType = "checkout.completed"

\* AdapterUpdateUser writing a whole record: the field, and defaults for the rest
AdapterUpdateUserReplacing(us, id, field, value) ==
    [us EXCEPT ![id] = [[creemCustomerId |-> Undefined, hadTrial |-> FALSE]
                            EXCEPT ![field] = value]]

\* AdapterUpdateUser whose write of hadTrial flips the stored flag
AdapterUpdateUserToggling(us, id, field, value) ==
    [us EXCEPT ![id][field] = IF field = "hadTrial" THEN ~us[id].hadTrial ELSE value]

\* adapter.update on user where id = id, setting one field
AdapterUpdateUser(us, id, field, value) == [us EXCEPT ![id][field] = value]

\* Where a hook starts: at its first storage call, or nowhere when it returns early
FirstStep(body) ==
    IF IsCheckout(body)
    THEN IF ~shouldPersist \/ body.customer = Undefined \/ body.referenceId = Undefined
         THEN "done" ELSE "user.findOne"
    ELSE IF ~shouldPersist \/ body.referenceId = Undefined THEN "done" ELSE "sub.findOne"

\* onCheckoutCompleted after its inner try
AfterUserStep(body) ==
    IF body.subId = Undefined \/ body.order = Undefined THEN "done" ELSE "sub.findOne"

\* A subscription hook after updateSubscriptionFromEvent
AfterReconciler(body) ==
    IF body.eventType = "subscription.trialing" THEN "user.findOne" ELSE "done"

\* Worker w goes to pc, keeping what it found
Goto(w, pc) == inflight' = [inflight EXCEPT ![w].pc = pc]

\* Worker w goes to pc, its adapter.update on user made
GotoWritten(w, pc) ==
    inflight' = [inflight EXCEPT ![w].pc = pc, ![w].userWrites = @ + 1]

\* A verified and parsed event reaches its hook
Accept(w) ==
    /\ inflight[w].pc = "idle"
    /\ \E body \in ConcurrentBodies :
            inflight' = [inflight EXCEPT ![w] =
                            [IdleWorker EXCEPT
                                !.body = body,
                                !.pc = FirstStep(body),
                                !.prior = {v \in Workers : inflight[v].pc = "done"}]]
    /\ UNCHANGED <<options, subscriptions, users, phase, request, response, log, pre,
                   delivery, redelivered, prevFaulty, creating, sent>>

\* adapter.findOne on user: of onCheckoutCompleted, or of markUserAsHadTrial
FindUser(w) ==
    LET b == inflight[w].body
        r == b.referenceId
    IN  /\ inflight[w].pc = "user.findOne"
        /\ IF IsCheckout(b)
           THEN Goto(w, IF r \in DOMAIN users /\ users[r].creemCustomerId = Undefined
                        THEN "user.update" ELSE AfterUserStep(b))
           ELSE Goto(w, IF r \in DOMAIN users /\ ~users[r].hadTrial
                        THEN "user.update" ELSE "done")
        /\ UNCHANGED <<options, subscriptions, users, phase, request, response, log, pre,
                       delivery, redelivered, prevFaulty, creating, sent>>

\* adapter.update on user: creemCustomerId, or hadTrial
UpdateUser(w) ==
    LET b == inflight[w].body
    IN  /\ inflight[w].pc = "user.update"
        /\ IF IsCheckout(b)
           THEN /\ users' = AdapterUpdateUser(users, b.referenceId, "creemCustomerId", b.customer)
                /\ GotoWritten(w, AfterUserStep(b))
           ELSE /\ users' = AdapterUpdateUser(users, b.referenceId, "hadTrial", TRUE)
                /\ GotoWritten(w, "done")
        /\ UNCHANGED <<options, subscriptions, phase, request, response, log, pre,
                       delivery, redelivered, prevFaulty, creating, sent>>

\* adapter.findOne on creem_subscription by creemSubscriptionId
FindSubscription(w) ==
    LET b == inflight[w].body
        i == FindBySubscriptionId(subscriptions, b.subId)
    IN  /\ inflight[w].pc = "sub.findOne"
        /\ inflight' = [inflight EXCEPT
                ![w].found = IF i = 0 THEN <<>> ELSE <<subscriptions[i]>>,
                ![w].pc = IF i # 0 THEN "sub.update"
                          ELSE IF IsCheckout(b) THEN "sub.create"
                          ELSE IF b.customer # Undefined THEN "sub.findMany"
                          ELSE AfterReconciler(b)]
        /\ UNCHANGED <<options, subscriptions, users, phase, request, response, log, pre,
                       delivery, redelivered, prevFaulty, creating, sent>>

\* adapter.findMany on creem_subscription by creemCustomerId
FindCustomerSubscriptions(w) ==
    LET b == inflight[w].body
        i == FindByCustomer(subscriptions, b.customer, b.product)
    IN  /\ inflight[w].pc = "sub.findMany"
        /\ inflight' = [inflight EXCEPT
                ![w].found = IF i = 0 THEN <<>> ELSE <<subscriptions[i]>>,
                ![w].pc = IF i # 0 THEN "sub.update" ELSE AfterReconciler(b)]
        /\ UNCHANGED <<options, subscriptions, users, phase, request, response, log, pre,
                       delivery, redelivered, prevFaulty, creating, sent>>

\* adapter.update on creem_subscription, with the data made from the record
\* the lookup returned
UpdateSubscription(w) ==
    LET b == inflight[w].body
        rec == inflight[w].found[1]
    IN  /\ inflight[w].pc = "sub.update"
        /\ subscriptions' =
                AdapterUpdate(subscriptions, rec.id,
                    IF IsCheckout(b) THEN CheckoutData(b)
                    ELSE UpdateData(rec, b, ResolvedStatus(b.eventType, b)))
        /\ Goto(w, IF IsCheckout(b) THEN "done" ELSE AfterReconciler(b))
        /\ UNCHANGED <<options, users, phase, request, response, log, pre,
                       delivery, redelivered, prevFaulty, creating, sent>>

\* adapter.create on creem_subscription
CreateSubscription(w) ==
    /\ inflight[w].pc = "sub.create"
    /\ subscriptions' = AdapterCreate(subscriptions, CheckoutData(inflight[w].body))
    /\ Goto(w, "done")
    /\ UNCHANGED <<options, users, phase, request, response, log, pre,
                   delivery, redelivered, prevFaulty, creating, sent>>

\* The storage call a worker is at throws: the catch around it logs, and the
\* hook goes on after that try
StorageThrows(w) ==
    LET b == inflight[w].body
        pc == inflight[w].pc
    IN  /\ pc \in {"user.findOne", "user.update", "sub.findOne", "sub.findMany",
                    "sub.update", "sub.create"}
        /\ inflight' = [inflight EXCEPT
                ![w].threw = TRUE,
                ![w].pc = IF pc \in {"user.findOne", "user.update"}
                          THEN (IF IsCheckout(b) THEN AfterUserStep(b) ELSE "done")
                          ELSE (IF IsCheckout(b) THEN "done" ELSE AfterReconciler(b))]
        /\ UNCHANGED <<options, subscriptions, users, phase, request, response, log, pre,
                       delivery, redelivered, prevFaulty, creating, sent>>

-----------------------------------------------------------------------------
(* checkout.ts: createCheckoutHandler and checkUserHadTrial *)

\* A subscription.trialing event of user u has been handled to its end;
\* guarded: with the user found and no storage call of it throwing
TrialingHandled(u, guarded) ==
    \E w \in Workers :
        /\ inflight[w].pc = "done"
        /\ inflight[w].body.eventType = "subscription.trialing"
        /\ inflight[w].body.referenceId = u
        /\ guarded => (shouldPersist /\ u \in DOMAIN users /\ ~inflight[w].threw)

\* The session's user posts to /creem/create-checkout
BeginCheckout(k) ==
    /\ creating[k].pc = "idle"
    /\ \E u \in ReferenceIds, m \in {Undefined, "true", "false"} :
            creating' = [creating EXCEPT ![k] =
                [IdleCreator EXCEPT
                    !.user = u, !.metadataSkipTrial = m,
                    !.afterTrialing = TrialingHandled(u, FALSE),
                    !.afterTrialGuard = TrialingHandled(u, TRUE),
                    !.status = IF options.apiKey = Undefined THEN 500 ELSE 0,
                    !.pc = IF options.apiKey = Undefined THEN "done"
                           ELSE IF u # Undefined /\ shouldPersist THEN "hadTrial.findOne"
                           ELSE "create"]]
    /\ UNCHANGED <<options, subscriptions, users, phase, request, response, log, pre,
                   delivery, redelivered, prevFaulty, inflight, sent>>

\* checkUserHadTrial: adapter.findOne on user returns, or throws (fail open)
CheckUserHadTrial(k) ==
    /\ creating[k].pc = "hadTrial.findOne"
    /\ \/ creating' = [creating EXCEPT
                ![k].userHadTrial = /\ creating[k].user \in DOMAIN users
                                    /\ users[creating[k].user].hadTrial,
                ![k].lookup = "ok", ![k].pc = "create"]
       \/ creating' = [creating EXCEPT ![k].lookup = "threw", ![k].pc = "create"]
    /\ UNCHANGED <<options, subscriptions, users, phase, request, response, log, pre,
                   delivery, redelivered, prevFaulty, inflight, sent>>

\* CheckoutMetadata with body.metadata spread last
CheckoutMetadataBodyLast(c) ==
    [referenceId |-> c.user,
     skipTrial |-> IF c.metadataSkipTrial # Undefined THEN c.metadataSkipTrial
                   ELSE IF c.userHadTrial THEN "true" ELSE Undefined]

\* The metadata of creem.checkouts.create: body.metadata, then referenceId,
\* then skipTrial: true when the user had a trial
CheckoutMetadata(c) ==
    [referenceId |-> c.user,
     skipTrial |-> IF c.userHadTrial THEN "true" ELSE c.metadataSkipTrial]

\* creem.checkouts.create returns: the checkout exists at the provider
SendCheckout(k) ==
    LET c == creating[k]
    IN  /\ c.pc = "create"
        /\ sent' = Append(sent,
                [metadata |-> CheckoutMetadata(c), bodyMetadata |-> c.metadataSkipTrial,
                 userHadTrial |-> c.userHadTrial, lookup |-> c.lookup,
                 afterTrialing |-> c.afterTrialing, afterTrialGuard |-> c.afterTrialGuard,
                 trialStarted |-> \E w \in Workers :
                        /\ inflight[w].pc # "idle"
                        /\ inflight[w].body.eventType = "subscription.trialing"
                        /\ inflight[w].body.referenceId = c.user])
        /\ creating' = [creating EXCEPT ![k].pc = "done", ![k].status = 200]
        /\ UNCHANGED <<options, subscriptions, users, phase, request, response, log, pre,
                       delivery, redelivered, prevFaulty, inflight>>

\* creem.checkouts.create throws: 500 "Failed to create checkout"
CreateCheckoutFails(k) ==
    /\ creating[k].pc = "create"
    /\ creating' = [creating EXCEPT ![k].pc = "done", ![k].status = 500]
    /\ UNCHANGED <<options, subscriptions, users, phase, request, response, log, pre,
                   delivery, redelivered, prevFaulty, inflight, sent>>

InitConcurrent ==
    /\ options \in [webhookSecret : {"whsec_1"},
                     persistSubscriptions : BOOLEAN,
                     callbacks : {{}},
                     apiKey : {"creem_key", Undefined}]
    /\ \E t \in {FreshTables, SeededTables} :
            /\ subscriptions = t.subs
            /\ users = t.users
    /\ phase = "idle"
    /\ request = NoRequest
    /\ response = NoResponse
    /\ log = <<>>
    /\ pre = Tables
    /\ delivery = 0
    /\ redelivered = FALSE
    /\ prevFaulty = FALSE
    /\ inflight = [w \in Workers |-> IdleWorker]
    /\ creating = [k \in Creators |-> IdleCreator]
    /\ sent = <<>>

NextConcurrent ==
    \/ \E w \in Workers :
            \/ Accept(w)
            \/ FindUser(w)
            \/ UpdateUser(w)
            \/ FindSubscription(w)
            \/ FindCustomerSubscriptions(w)
            \/ UpdateSubscription(w)
            \/ CreateSubscription(w)
            \/ StorageThrows(w)
    \/ \E k \in Creators :
            \/ BeginCheckout(k)
            \/ CheckUserHadTrial(k)
            \/ SendCheckout(k)
            \/ CreateCheckoutFails(k)

Concurrent == InitConcurrent /\ [][NextConcurrent]_vars

-----------------------------------------------------------------------------
(* What a handled request shows *)

Handled == phase = "handled"

\* The request carries the HMAC of its body under the configured secret
Authentic ==
    /\ request.present
    /\ options.webhookSecret # Undefined
    /\ request.signature # NoHeader
    /\ request.signature = <<"hmac-sha256", options.webhookSecret, request.body>>

\* The body is JSON and has the shape of an event envelope
Parses ==
    /\ request.body.json
    /\ request.body.eventType # Undefined
    /\ request.body.id # Undefined
    /\ request.body.created_at # <<>>
    /\ request.body.object \in EntityKinds

TwelveEventTypes ==
    {"checkout.completed", "refund.created", "dispute.created",
     "subscription.active", "subscription.trialing", "subscription.canceled",
     "subscription.paid", "subscription.expired", "subscription.unpaid",
     "subscription.update", "subscription.past_due", "subscription.paused"}

\* The log's entries of one kind
Entries(kind) == SelectSeq(log, LAMBDA e : e.kind = kind)

\* The arguments the callback `name` was invoked with, in order
Calls(name) ==
    LET mine == SelectSeq(log, LAMBDA e : e.kind = "callback" /\ e.name = name)
    IN  [i \in DOMAIN mine |-> mine[i].arg]

\* A user callback threw while the request was handled
CallbackThrew == Entries("threw") # <<>>

\* The storage adapter was called with operation op (and returned or threw)
Issued(op) == \E i \in DOMAIN log : log[i].kind = "adapter" /\ log[i].name = op

\* The storage adapter performed operation op
Performed(op) ==
    \E i \in DOMAIN log :
        log[i].kind = "adapter" /\ log[i].name = op /\ log[i].arg = "ok"

Ok200 == response = [status |-> 200, key |-> "message", text |-> "Webhook received"]

-----------------------------------------------------------------------------
(* Claims *)

C3_AlwaysAcknowledged == (Handled /\ Authentic) => Ok200

\* C3, amended: a request whose signature verifies is answered 200 "Webhook
\* received" (unknown event type, skipped reconciliation and storage failure
\* included) unless parsing its body throws or a user callback throws, and is
\* then answered 500 "Failed to process webhook"; a response other than 2xx is
\* produced only for a missing request or a bad or missing signature (400) and
\* for those two exceptions (500).
C3_AcknowledgedUnlessThrown ==
    /\ (Handled /\ Authentic)
       => IF Parses /\ ~CallbackThrew
          THEN Ok200
          ELSE response = [status |-> 500, key |-> "error",
                           text |-> "Failed to process webhook"]
    /\ (Handled /\ ~Ok200)
       => \/ response.status = 400 /\ ~Authentic
          \/ response.status = 500 /\ Authentic /\ (~Parses \/ CallbackThrew)

\* C3's case: an unknown event type, verified, acknowledged with 200
C3_Witness ==
    /\ Handled /\ Authentic /\ Parses
    /\ request.body.eventType = "subscription.scheduled_cancel"
    /\ Ok200

Failed500 == response = [status |-> 500, key |-> "error", text |-> "Failed to process webhook"]

\* A verified, well-formed subscription.<state> event has been handled
StatusEventHandled ==
    /\ Handled /\ Authentic /\ Parses
    /\ request.body.eventType \in
        {"subscription.active", "subscription.trialing", "subscription.canceled",
         "subscription.paid", "subscription.expired", "subscription.unpaid",
         "subscription.update", "subscription.past_due", "subscription.paused"}

\* The records the event's subscription id, and its customer id, found
\* when the request arrived
FoundById == {i \in DOMAIN pre.subs : pre.subs[i].creemSubscriptionId = request.body.subId}

FoundByCustomer == {i \in DOMAIN pre.subs : pre.subs[i].creemCustomerId = request.body.customer}

\* A storage call threw while this request was handled
StorageThrew == \E i \in DOMAIN log : log[i].kind = "adapter" /\ log[i].arg = "throw"

\* C4 as stated: a storage-adapter call that throws while a verified event is
\* reconciled, or while the trial guard runs, is caught and logged inside the
\* hook, and the request is still answered 200 "Webhook received".
C4_StorageFailureAcknowledged ==
    (Handled /\ StorageThrew)
    => /\ \A i \in DOMAIN log :
            (log[i].kind = "adapter" /\ log[i].arg = "throw")
            => i < Len(log) /\ log[i + 1] = [kind |-> "logger", name |-> "error", arg |-> ""]
       /\ Ok200

\* C4, amended: a storage-adapter call that throws while a verified event is
\* reconciled, or while the trial guard runs, is caught and logged inside the
\* hook (the error log entry follows the call at once) and never reaches the
\* handler; the request is answered 200 "Webhook received" unless a user
\* callback throws afterwards, which alone makes it 500.
C4_StorageFailureCaught ==
    (Handled /\ StorageThrew)
    => /\ \A i \in DOMAIN log :
            (log[i].kind = "adapter" /\ log[i].arg = "throw")
            => i < Len(log) /\ log[i + 1] = [kind |-> "logger", name |-> "error", arg |-> ""]
       /\ IF CallbackThrew THEN Failed500 ELSE Ok200

\* C4's case: the update of a found record threw, and the answer is 200
C4_Witness ==
    /\ StatusEventHandled
    /\ log[Len(log)] = [kind |-> "logger", name |-> "error", arg |-> ""]
    /\ \E i \in DOMAIN log : log[i] = [kind |-> "adapter", name |-> "sub.update", arg |-> "throw"]
    /\ Tables = pre
    /\ Ok200

\* C5: reconciliation is idempotent under replay: delivering an event again
\* right after it was processed (with the storage serving every call of the
\* first delivery) leaves the subscription and user tables exactly as the
\* first delivery left them; the callbacks may fire on each delivery.
C5_ReplayIdempotent ==
    (Handled /\ redelivered /\ ~prevFaulty) => Tables = pre

\* C5's case: a checkout.completed that created a record was delivered again,
\* found that record, updated it, and invoked the callback again
C5_Witness ==
    /\ Handled /\ redelivered /\ ~prevFaulty
    /\ request.body.eventType = "checkout.completed"
    /\ Len(subscriptions) = 2
    /\ subscriptions[2].creemSubscriptionId = request.body.subId
    /\ Performed("sub.update")
    /\ Calls("onCheckoutCompleted") = <<"checkout.completed">>

\* C6: when a subscription-status event is applied to an existing record,
\* periodStart (periodEnd) becomes the event's instant if the event carries a
\* current_period_start_date (current_period_end_date) and otherwise keeps
\* the stored value; a stored date is never replaced by undefined; no other
\* record changes.
C6_NullPreservingPeriods ==
    (StatusEventHandled /\ Performed("sub.update"))
    => \A i \in DOMAIN subscriptions :
          IF subscriptions[i].creemSubscriptionId = request.body.subId
          THEN /\ subscriptions[i].periodStart =
                    (IF request.body.start # Undefined
                     THEN NewDate(request.body.start) ELSE pre.subs[i].periodStart)
               /\ subscriptions[i].periodEnd =
                    (IF request.body.end # Undefined
                     THEN NewDate(request.body.end) ELSE pre.subs[i].periodEnd)
               /\ pre.subs[i].periodStart # NoDate => subscriptions[i].periodStart # NoDate
               /\ pre.subs[i].periodEnd # NoDate => subscriptions[i].periodEnd # NoDate
          ELSE subscriptions[i] = pre.subs[i]

\* C6's case: an event with an end date and no start date was applied to a
\* record holding both: the start is the stored one, the end the event's
C6_Witness ==
    /\ StatusEventHandled /\ Performed("sub.update")
    /\ request.body.start = Undefined /\ request.body.end = Mar1
    /\ pre.subs[1].periodStart = <<1735689600>> /\ pre.subs[1].periodEnd = <<1738368000>>
    /\ subscriptions[1].periodStart = <<1735689600>>
    /\ subscriptions[1].periodEnd = <<1740787200>>

\* C7: when the subscription id of a subscription-status event matches no
\* record and exactly one record has the event's customer id and product id,
\* no record is created, and the reconciler (reaching the lookup: persistence
\* on, a referenceId in the metadata, the storage serving its calls) updates
\* that record, writing the event's subscription id onto it.
C7_LookupFallback ==
    LET b == request.body
        match == {i \in DOMAIN pre.subs :
                    pre.subs[i].creemCustomerId = b.customer /\ pre.subs[i].productId = b.product}
    IN  (StatusEventHandled /\ FoundById = {} /\ Cardinality(match) = 1)
        => /\ Len(subscriptions) = Len(pre.subs)
           /\ ~Issued("sub.create")
           /\ (options.persistSubscriptions /\ b.referenceId # Undefined /\ ~StorageThrew)
              => /\ Performed("sub.update")
                 /\ \A i \in DOMAIN subscriptions :
                        IF i \in match
                        THEN /\ subscriptions[i].creemSubscriptionId = b.subId
                             /\ subscriptions[i].id = pre.subs[i].id
                             /\ subscriptions[i] # pre.subs[i]
                        ELSE subscriptions[i] = pre.subs[i]

\* C7's case: sub_2 is unknown, the record of sub_1 has the event's customer
\* and product, and now carries sub_2
C7_Witness ==
    /\ StatusEventHandled
    /\ request.body.subId = "sub_2"
    /\ Len(pre.subs) = 1 /\ pre.subs[1].creemSubscriptionId = "sub_1"
    /\ pre.subs[1].creemCustomerId = request.body.customer
    /\ pre.subs[1].productId = request.body.product
    /\ Performed("sub.update")
    /\ Len(subscriptions) = 1 /\ subscriptions[1].creemSubscriptionId = "sub_2"

\* C8 as stated: a subscription-status event for which neither lookup finds a
\* record performs no storage write at all, and is acknowledged with 200.
C8_NoWriteAtAll ==
    (StatusEventHandled /\ FoundById = {} /\ FoundByCustomer = {})
    => /\ Tables = pre
       /\ ~Issued("sub.update") /\ ~Issued("sub.create") /\ ~Issued("user.update")
       /\ Ok200

\* C8, amended: a subscription-status event for which neither lookup finds a
\* record creates and modifies no subscription record; the only storage write
\* it can make is the trial guard's, which on subscription.trialing sets
\* hadTrial of the referenced user; it is acknowledged with 200 unless a user
\* callback throws, and then answered 500.
C8_NoSubscriptionWrite ==
    (StatusEventHandled /\ FoundById = {} /\ FoundByCustomer = {})
    => /\ subscriptions = pre.subs
       /\ ~Issued("sub.update") /\ ~Issued("sub.create")
       /\ \/ users = pre.users /\ ~Performed("user.update")
          \/ /\ request.body.eventType = "subscription.trialing"
             /\ request.body.referenceId \in DOMAIN pre.users
             /\ ~pre.users[request.body.referenceId].hadTrial
             /\ users = [pre.users EXCEPT ![request.body.referenceId].hadTrial = TRUE]
       /\ IF CallbackThrew THEN Failed500 ELSE Ok200

\* C8's case: both lookups ran on a table that has records, found none, and
\* nothing was written
C8_Witness ==
    /\ StatusEventHandled /\ FoundById = {} /\ FoundByCustomer = {}
    /\ Len(pre.subs) = 1
    /\ Performed("sub.findOne") /\ Performed("sub.findMany")
    /\ Tables = pre
    /\ Ok200

\* C9: a verified, well-formed event whose eventType is none of the twelve
\* known types causes no storage access, no grant/revoke signal and no event
\* callback, changes no table, and is acknowledged with 200 "Webhook received".
C9_UnknownEventType ==
    (Handled /\ Authentic /\ Parses /\ request.body.eventType \notin TwelveEventTypes)
    => /\ log = <<[kind |-> "parse", name |-> "parseWebhookEvent", arg |-> ""]>>
       /\ Tables = pre
       /\ Ok200

\* C9's case: subscription.scheduled_cancel, for a subscription that is
\* stored, with persistence on and every callback configured
C9_Witness ==
    /\ Handled /\ Authentic /\ Parses
    /\ request.body.eventType = "subscription.scheduled_cancel"
    /\ options.persistSubscriptions /\ "onRevokeAccess" \in options.callbacks
    /\ FoundById # {}
    /\ response.status = 200

\* The access callback of an event type and the callback of its own, in the
\* order the handler awaits them
ExpectedCalls(t) ==
    LET own(name) == <<[kind |-> "callback", name |-> name, arg |-> t]>>
        grant(reason) == <<[kind |-> "callback", name |-> "onGrantAccess", arg |-> reason]>>
        revoke(reason) == <<[kind |-> "callback", name |-> "onRevokeAccess", arg |-> reason]>>
    IN  CASE t = "checkout.completed" -> own("onCheckoutCompleted")
          [] t = "refund.created" -> own("onRefundCreated")
          [] t = "dispute.created" -> own("onDisputeCreated")
          [] t = "subscription.active" -> grant("subscription_active") \o own("onSubscriptionActive")
          [] t = "subscription.trialing" ->
                grant("subscription_trialing") \o own("onSubscriptionTrialing")
          [] t = "subscription.canceled" -> own("onSubscriptionCanceled")
          [] t = "subscription.paid" -> grant("subscription_paid") \o own("onSubscriptionPaid")
          [] t = "subscription.expired" ->
                revoke("subscription_expired") \o own("onSubscriptionExpired")
          [] t = "subscription.unpaid" -> own("onSubscriptionUnpaid")
          [] t = "subscription.update" -> own("onSubscriptionUpdate")
          [] t = "subscription.past_due" -> own("onSubscriptionPastDue")
          [] t = "subscription.paused" ->
                revoke("subscription_paused") \o own("onSubscriptionPaused")
          [] OTHER -> <<>>

\* The callbacks were invoked as the event type prescribes: those configured,
\* in order, up to the first that threw
CalledAsPrescribed ==
    LET want == SelectSeq(ExpectedCalls(request.body.eventType),
                          LAMBDA e : e.name \in options.callbacks)
        got == Entries("callback")
    IN  IF CallbackThrew
        THEN /\ Len(Entries("threw")) = 1
             /\ Len(got) \in 1..Len(want)
             /\ got = SubSeq(want, 1, Len(got))
             /\ log[Len(log)].kind = "threw" /\ log[Len(log)].name = got[Len(got)].name
        ELSE got = want

\* C10: when persistSubscriptions is false, a verified event causes no
\* storage-adapter operation on either table and changes neither, while the
\* grant/revoke signal and the event-specific callback are invoked exactly as
\* they are when persistence is enabled.
C10_PersistenceDisabled ==
    (Handled /\ Authentic /\ Parses)
    => /\ CalledAsPrescribed
       /\ ~options.persistSubscriptions => (Entries("adapter") = <<>> /\ Tables = pre)

\* C10's case: persistence is off, a subscription.trialing event of a stored
\* subscription arrives, and both callbacks are invoked
C10_Witness ==
    /\ StatusEventHandled /\ ~options.persistSubscriptions
    /\ request.body.eventType = "subscription.trialing"
    /\ FoundById # {} /\ request.body.referenceId = "user_1"
    /\ Calls("onGrantAccess") = <<"subscription_trialing">>
    /\ Calls("onSubscriptionTrialing") = <<"subscription.trialing">>
    /\ Tables = pre

\* The record carries the checkout event's product, reference, customer,
\* subscription and order ids, and the embedded subscription's status
FromCheckout(rec, b) ==
    /\ rec.productId = b.product
    /\ rec.referenceId = b.referenceId
    /\ rec.creemCustomerId = b.customer
    /\ rec.creemSubscriptionId = b.subId
    /\ rec.creemOrderId = b.order
    /\ rec.status = b.status

C12_CustomerIdFirstWriteWins ==
    [][\A u \in DOMAIN users :
            users[u].creemCustomerId # Undefined
            => users'[u].creemCustomerId = users[u].creemCustomerId]_vars

\* C13: in every reachable state at most one subscription record carries a
\* given provider subscription id, also when one checkout.completed event is
\* delivered twice and both deliveries are handled at once.
C13_UniqueSubscriptionId ==
    \A i, j \in DOMAIN subscriptions :
        (/\ subscriptions[i].creemSubscriptionId # Undefined
         /\ subscriptions[i].creemSubscriptionId = subscriptions[j].creemSubscriptionId)
        => i = j

\* C14: in every reachable state, a subscription record with cancelAtPeriodEnd
\* true has status scheduled_cancel.
C14_CancelFlagOnlyWhenScheduled ==
    \A i \in DOMAIN subscriptions :
        subscriptions[i].cancelAtPeriodEnd => subscriptions[i].status = "scheduled_cancel"

\* C15: periodStart and periodEnd of a subscription record never move
\* backward, whatever events arrive and in whatever order.
C15_PeriodsNeverMoveBackward ==
    [][\A i \in DOMAIN subscriptions :
            /\ (subscriptions[i].periodStart # NoDate /\ subscriptions'[i].periodStart # NoDate)
               => subscriptions'[i].periodStart[1] >= subscriptions[i].periodStart[1]
            /\ (subscriptions[i].periodEnd # NoDate /\ subscriptions'[i].periodEnd # NoDate)
               => subscriptions'[i].periodEnd[1] >= subscriptions[i].periodEnd[1]]_vars

\* C16: hadTrial is monotone: once it is true for a user it is true in every
\* later state, whatever events are handled, in whatever order and
\* interleaving.
C16_HadTrialMonotone ==
    [][\A u \in DOMAIN users : users[u].hadTrial => users'[u].hadTrial]_vars

\* C16's case: a subscription.trialing event and a checkout.completed event of
\* user_1 have both been handled, each writing the user record, and hadTrial
\* is set
C16_Witness ==
    /\ users["user_1"].hadTrial
    /\ users["user_1"].creemCustomerId = "cus_2"
    /\ \E w \in Workers :
            /\ inflight[w].pc = "done" /\ ~inflight[w].threw
            /\ inflight[w].body.eventType = "subscription.trialing"
    /\ \E w \in Workers :
            /\ inflight[w].pc = "done" /\ ~inflight[w].threw
            /\ inflight[w].body.eventType = "checkout.completed"
            /\ inflight[w].body.customer = "cus_2"

\* The storage calls of one operation the request made, returned or thrown
Issues(op) == SelectSeq(log, LAMBDA e : e.kind = "adapter" /\ e.name = op)

\* C17: when two subscription.trialing events with the same referenceId (an
\* existing user, hadTrial false at first, persistence on, the storage serving
\* the calls) are handled one after the other, the first issues exactly one
\* user update, which sets hadTrial, and the second issues none and leaves
\* the user table as it was.
C17_TrialGuardIdempotent ==
    LET r == request.body.referenceId IN
    (/\ StatusEventHandled
     /\ request.body.eventType = "subscription.trialing"
     /\ options.persistSubscriptions
     /\ r \in DOMAIN pre.users)
    => /\ (~redelivered /\ ~pre.users[r].hadTrial /\ ~StorageThrew)
          => /\ Len(Issues("user.update")) = 1
             /\ Performed("user.update")
             /\ users = [pre.users EXCEPT ![r].hadTrial = TRUE]
       /\ (redelivered /\ ~prevFaulty)
          => /\ pre.users[r].hadTrial
             /\ Performed("user.findOne")
             /\ Issues("user.update") = <<>>
             /\ users = pre.users

\* C17's case: the second of two subscription.trialing events of user_1 has
\* looked the user up, found hadTrial set by the first, and written nothing
C17_Witness ==
    /\ StatusEventHandled /\ redelivered /\ ~prevFaulty
    /\ request.body.eventType = "subscription.trialing"
    /\ request.body.referenceId = "user_1"
    /\ pre.users["user_1"].hadTrial /\ users["user_1"].hadTrial
    /\ Performed("user.findOne") /\ ~Issued("user.update")

\* C18: with persistence enabled, in any interleaving of a user's checkout
\* creations and webhook deliveries, no checkout of a user whose trial has
\* started (the provider has delivered a subscription.trialing event of that
\* user) is sent to the provider without metadata skipTrial: true.
C18_AtMostOneTrial ==
    options.persistSubscriptions
    => \A i \in DOMAIN sent :
          (sent[i].metadata.referenceId \in DOMAIN users /\ sent[i].trialStarted)
          => sent[i].metadata.skipTrial = "true"

\* The plugin added skipTrial to no checkout of a user whose hadTrial it did
\* not read as true: such a checkout carries the request's own metadata
NoSkipTrialUnlessHadTrial ==
    \A i \in DOMAIN sent :
        /\ ~sent[i].userHadTrial => sent[i].metadata.skipTrial = sent[i].bodyMetadata
        /\ sent[i].userHadTrial
           => /\ options.persistSubscriptions /\ sent[i].lookup = "ok"
              /\ sent[i].metadata.referenceId \in DOMAIN users
              /\ users[sent[i].metadata.referenceId].hadTrial

C20_ExpiredAndPastDueStatus ==
    (StatusEventHandled /\ Performed("sub.update"))
    => \A i \in DOMAIN subscriptions :
          subscriptions[i].creemSubscriptionId = request.body.subId
          => /\ request.body.eventType = "subscription.expired"
                => subscriptions[i].status = "expired"
             /\ request.body.eventType = "subscription.past_due"
                => subscriptions[i].status = "past_due"

\* C21: a request with a valid signature whose body is not valid JSON, or
\* fails the event-envelope shape check, is answered with a client error (4xx).
C21_MalformedBodyClientError ==
    (Handled /\ Authentic /\ ~Parses)
    => (response.status >= 400 /\ response.status <= 499)

\* C22 as stated: when a subscription-status event carrying
\* metadata.referenceId arrives and no subscription record exists for it, the
\* engine creates a record for that subscription.
C22_StatusEventCreatesRecord ==
    (/\ StatusEventHandled /\ options.persistSubscriptions /\ ~StorageThrew
     /\ request.body.referenceId # Undefined
     /\ FoundById = {} /\ FoundByCustomer = {})
    => \E i \in DOMAIN subscriptions :
            subscriptions[i].creemSubscriptionId = request.body.subId

\* C22, amended: a subscription-status event never creates a subscription
\* record: when none exists for it (by subscription id or by customer id) the
\* table is left as it is and still holds no record of that subscription;
\* records are created by checkout.completed only.
C22_OnlyCheckoutCreatesRecords ==
    /\ StatusEventHandled
       => /\ Len(subscriptions) = Len(pre.subs)
          /\ ~Issued("sub.create")
          /\ (FoundById = {} /\ FoundByCustomer = {})
             => /\ subscriptions = pre.subs
                /\ \A i \in DOMAIN subscriptions :
                        subscriptions[i].creemSubscriptionId # request.body.subId
    /\ (Handled /\ Len(subscriptions) # Len(pre.subs))
       => /\ request.body.eventType = "checkout.completed"
          /\ Performed("sub.create")

\* C22's case: a subscription.active event of user_1 for a subscription and a
\* customer no record knows was looked up both ways, and no record was made
C22_Witness ==
    /\ StatusEventHandled /\ options.persistSubscriptions /\ ~StorageThrew
    /\ request.body.eventType = "subscription.active"
    /\ request.body.referenceId = "user_1"
    /\ FoundById = {} /\ FoundByCustomer = {}
    /\ Performed("sub.findOne") /\ Performed("sub.findMany")
    /\ subscriptions = <<>>

\* C23: no webhook event deletes a subscription record: in every step the
\* table keeps every record it had, under the same id, and only grows.
C23_RecordsNeverDeleted ==
    [][/\ Len(subscriptions') >= Len(subscriptions)
       /\ \A i \in DOMAIN subscriptions : subscriptions'[i].id = subscriptions[i].id]_vars

\* C23's case: with two records stored, an event has updated the second and
\* the first is still there
C23_Witness ==
    /\ Handled /\ Performed("sub.update")
    /\ Len(pre.subs) = 2 /\ Len(subscriptions) = 2
    /\ subscriptions[1] = pre.subs[1]
    /\ subscriptions[2].creemSubscriptionId = request.body.subId

\* The storage adapter threw in operation op
Threw(op) ==
    \E i \in DOMAIN log :
        log[i].kind = "adapter" /\ log[i].name = op /\ log[i].arg = "throw"

\* A checkout.completed event that reaches both parts of its hook
CheckoutHandled ==
    /\ Handled /\ Authentic /\ Parses
    /\ request.body.eventType = "checkout.completed"
    /\ options.persistSubscriptions
    /\ request.body.customer # Undefined /\ request.body.referenceId # Undefined
    /\ request.body.subId # Undefined /\ request.body.order # Undefined

UserStepThrew == Threw("user.findOne") \/ Threw("user.update")

SubscriptionStepThrew == Threw("sub.findOne") \/ Threw("sub.update") \/ Threw("sub.create")

\* The two parts of the checkout hook do not depend on each other
CheckoutStepsIndependent ==
    LET b == request.body IN
    /\ (UserStepThrew /\ ~SubscriptionStepThrew)
       => /\ Performed("sub.create") \/ Performed("sub.update")
          /\ \E i \in DOMAIN subscriptions : FromCheckout(subscriptions[i], b)
    /\ (SubscriptionStepThrew /\ Performed("user.update"))
       => /\ pre.users[b.referenceId].creemCustomerId = Undefined
          /\ users[b.referenceId].creemCustomerId = b.customer
          /\ subscriptions = pre.subs

\* C24 as stated: in checkout.completed the two sub-steps are independent: if
\* the user lookup or update throws, the subscription record is still created
\* or updated; if the subscription create or update throws, the earlier
\* creemCustomerId update is retained; and the request is still acknowledged.
C24_CheckoutStepsIndependent ==
    CheckoutHandled
    => /\ CheckoutStepsIndependent
       /\ (UserStepThrew \/ SubscriptionStepThrew) => Ok200

\* C24, amended: in checkout.completed the two sub-steps are independent: if
\* the user lookup or update throws, the subscription record is still created
\* or updated; if the subscription lookup, create or update throws, the
\* earlier creemCustomerId update is retained; the request is then
\* acknowledged with 200 unless a user callback throws afterwards, which
\* makes the answer 500.
C24_CheckoutStepsIndependentUnlessCallbackThrows ==
    CheckoutHandled
    => /\ CheckoutStepsIndependent
       /\ (UserStepThrew \/ SubscriptionStepThrew)
          => IF CallbackThrew THEN Failed500 ELSE Ok200

\* C24's case: the user lookup threw and the record of the checkout was
\* created all the same
C24_Witness ==
    /\ CheckoutHandled /\ Ok200
    /\ Threw("user.findOne") /\ Performed("sub.create")
    /\ Len(subscriptions) = Len(pre.subs) + 1
    /\ FromCheckout(subscriptions[Len(subscriptions)], request.body)
    /\ users = pre.users

\* C25: the access signal does not depend on what the reconciler did: for
\* subscription.active, .trialing, .paid, .expired and .paused the configured
\* onGrantAccess / onRevokeAccess is invoked, once, with the reason of the
\* event type, as the first callback and after every storage call of the
\* hook, whether the reconciler updated a record, skipped (persistence
\* disabled, no referenceId, no record found) or had a storage call throw.
C25_AccessSignalWhateverReconciled ==
    LET signal == AccessSignal(request.body.eventType)
        entry == [kind |-> "callback", name |-> signal.name, arg |-> signal.reason]
    IN  (/\ StatusEventHandled
         /\ signal.name # "none" /\ signal.name \in options.callbacks)
        => /\ Entries("callback") # <<>> /\ Entries("callback")[1] = entry
           /\ Calls(signal.name) = <<signal.reason>>
           /\ \A i, j \in DOMAIN log :
                   (log[i].kind = "adapter" /\ log[j] = entry) => i < j

\* C25's case: the lookup of a subscription.paid event threw, nothing was
\* stored, and onGrantAccess was invoked with subscription_paid
C25_Witness ==
    /\ StatusEventHandled
    /\ request.body.eventType = "subscription.paid"
    /\ Threw("sub.findOne") /\ Tables = pre
    /\ Calls("onGrantAccess") = <<"subscription_paid">>

\* C27: when a record is updated, subscription.active, .trialing, .canceled,
\* .unpaid and .paused store the status their event type names (active,
\* trialing, canceled, unpaid, paused) whatever the status field of the
\* payload says; subscription.paid and subscription.update store the
\* payload's status verbatim.
C27_StoredStatusByEventType ==
    LET b == request.body
        stored == CASE b.eventType = "subscription.active" -> "active"
                    [] b.eventType = "subscription.trialing" -> "trialing"
                    [] b.eventType = "subscription.canceled" -> "canceled"
                    [] b.eventType = "subscription.unpaid" -> "unpaid"
                    [] b.eventType = "subscription.paused" -> "paused"
                    [] OTHER -> b.status
    IN  (/\ StatusEventHandled /\ Performed("sub.update")
         /\ b.eventType \notin {"subscription.expired", "subscription.past_due"})
        => /\ \E i \in DOMAIN subscriptions : subscriptions[i].creemSubscriptionId = b.subId
           /\ \A i \in DOMAIN subscriptions :
                   subscriptions[i].creemSubscriptionId = b.subId
                   => subscriptions[i].status = stored

\* C27's case: a subscription.paused event whose payload says past_due has
\* left the record in status paused
C27_Witness ==
    /\ StatusEventHandled /\ Performed("sub.update")
    /\ request.body.eventType = "subscription.paused"
    /\ request.body.status = "past_due"
    /\ pre.subs[1].status = "active"
    /\ subscriptions[1].creemSubscriptionId = request.body.subId
    /\ subscriptions[1].status = "paused"

\* Worker w has handled a subscription-status event to its end: persistence
\* on, a record located, no storage call of it throwing
Reconciled(w) ==
    /\ inflight[w].pc = "done" /\ ~IsCheckout(inflight[w].body)
    /\ options.persistSubscriptions
    /\ inflight[w].found # <<>> /\ ~inflight[w].threw

\* Worker w is writing the update of a subscription-status event in this step
WritesStatus(w) ==
    /\ inflight[w].pc = "sub.update" /\ ~IsCheckout(inflight[w].body)
    /\ inflight'[w].pc # "sub.update" /\ ~inflight'[w].threw

\* C26: when a status is reconciled onto a record (the record as the lookup
\* returned it), cancelAtPeriodEnd becomes true if the stored status becomes
\* scheduled_cancel, false if it becomes canceled, and for every other status
\* keeps the value stored before the write.
C26_CancelFlagRule ==
    [][\A w \in Workers :
        LET id == inflight[w].found[1].id IN
        (WritesStatus(w) /\ inflight[w].found[1] = subscriptions[id])
        => /\ subscriptions'[id].status =
                ResolvedStatus(inflight[w].body.eventType, inflight[w].body)
           /\ subscriptions'[id].cancelAtPeriodEnd =
                (IF subscriptions'[id].status = "scheduled_cancel" THEN TRUE
                 ELSE IF subscriptions'[id].status = "canceled" THEN FALSE
                 ELSE subscriptions[id].cancelAtPeriodEnd)]_vars

\* C26's case: subscription.paused was reconciled after the update to
\* scheduled_cancel had set the flag: the record is paused and the flag is
\* still set
C26_Witness ==
    \E w \in Workers : \E v \in inflight[w].prior :
        /\ Reconciled(w) /\ Reconciled(v)
        /\ inflight[v].body.eventType = "subscription.update"
        /\ inflight[v].body.status = "scheduled_cancel"
        /\ inflight[w].body.eventType = "subscription.paused"
        /\ inflight[w].found[1].cancelAtPeriodEnd
        /\ subscriptions[inflight[w].found[1].id].status = "paused"
        /\ subscriptions[inflight[w].found[1].id].cancelAtPeriodEnd

\* C28: the order of processing, not created_at, decides the stored state: of
\* two subscription-status events for one subscription handled one after the
\* other, the stored status afterwards is the resolved status of the one
\* handled second, whichever created_at the two carry.
C28_ProcessingOrderDecides ==
    \A w \in Workers : \A v \in inflight[w].prior :
        (/\ Reconciled(w) /\ ~IsCheckout(inflight[v].body)
         /\ inflight[v].body.subId = inflight[w].body.subId)
        => subscriptions[inflight[w].found[1].id].status =
                ResolvedStatus(inflight[w].body.eventType, inflight[w].body)

\* C28's case: subscription.paused (created_at 2) was handled after
\* subscription.canceled (created_at 4) had been stored, and the record is paused
C28_Witness ==
    \E w \in Workers : \E v \in inflight[w].prior :
        /\ Reconciled(w) /\ Reconciled(v)
        /\ inflight[v].body.eventType = "subscription.canceled"
        /\ inflight[w].body.eventType = "subscription.paused"
        /\ inflight[w].body.created_at[1] < inflight[v].body.created_at[1]
        /\ inflight[w].found[1].status = "canceled"
        /\ subscriptions[inflight[w].found[1].id].status = "paused"

\* C29: no update of a preserved field is lost: of two subscription-status
\* events for one subscription handled at once, one carrying a period end T2
\* and one carrying no period dates (neither resolving to scheduled_cancel or
\* canceled), the stored periodEnd is T2 once both are handled, in every
\* interleaving.
C29_NoLostPeriodEnd ==
    \A w, v \in Workers :
        (/\ Reconciled(w) /\ Reconciled(v)
         /\ inflight[w].body.eventType = "subscription.paid"
         /\ inflight[w].body.end = Mar1
         /\ inflight[v].body.eventType = "subscription.paused"
         /\ inflight[v].body.end = Undefined /\ inflight[v].body.start = Undefined
         /\ inflight[v].found[1].id = inflight[w].found[1].id)
        => subscriptions[inflight[w].found[1].id].periodEnd = NewDate(Mar1)

\* Worker w has handled a subscription.trialing event of user u to its end
TrialingDone(w, u) ==
    /\ inflight[w].pc = "done"
    /\ inflight[w].body.eventType = "subscription.trialing"
    /\ inflight[w].body.referenceId = u
    /\ options.persistSubscriptions /\ ~inflight[w].threw

\* C30: subscription.trialing events for one existing user handled at once
\* (no storage call throwing) leave hadTrial true in every interleaving; each
\* of them writes the flag at most once, so that two duplicates make at most
\* one write of true onto a flag that is already true.
C30_ConcurrentTrialGuard ==
    \A u \in UserIds :
        LET duplicates == {w \in Workers : TrialingDone(w, u)}
        IN  /\ duplicates # {} => users[u].hadTrial
            /\ \A w \in duplicates : inflight[w].userWrites <= 1

\* C30's case: two subscription.trialing events of user_1 were handled at
\* once, both found the flag unset, both wrote it, and it is set
C30_Witness ==
    /\ \A w \in Workers : TrialingDone(w, "user_1") /\ inflight[w].userWrites = 1
    /\ \A w \in Workers : inflight[w].prior = {}
    /\ users["user_1"].hadTrial

AccessCallbacks == {"onGrantAccess", "onRevokeAccess"}

\* The outcomes of the hook of the handled event alone, run on the tables the
\* request found
HookOutcomes ==
    RunHook([subs |-> pre.subs, users |-> pre.users,
             log |-> <<LogEntry("parse", "parseWebhookEvent", "")>>,
             faults |-> TRUE, throws |-> FALSE, threw |-> FALSE, resp |-> NoResponse],
            request.body)

\* C31: within the processing of one event every storage call of the
\* reconciler and the trial guard comes before any user callback, the
\* grant/revoke callback comes before the event-specific callback, and when a
\* callback throws the storage is exactly as the hook wrote it: nothing is
\* rolled back and nothing is written after.
C31_WritesBeforeCallbacks ==
    (Handled /\ Authentic /\ Parses /\ request.body.eventType \in KnownEventTypes)
    => /\ \A i, j \in DOMAIN log :
            (log[i].kind = "adapter" /\ log[j].kind = "callback") => i < j
       /\ \A i, j \in DOMAIN log :
            (/\ log[i].kind = "callback" /\ log[i].name \in AccessCallbacks
             /\ log[j].kind = "callback" /\ log[j].name \notin AccessCallbacks) => i < j
       /\ CallbackThrew
          => \E c \in HookOutcomes :
                /\ c.log = SelectSeq(log, LAMBDA e : e.kind \notin {"callback", "threw"})
                /\ c.subs = subscriptions /\ c.users = users

\* C31's case: subscription.trialing updated the record and set hadTrial,
\* onGrantAccess returned, onSubscriptionTrialing threw, and both writes are
\* stored
C31_Witness ==
    /\ StatusEventHandled /\ Failed500
    /\ request.body.eventType = "subscription.trialing"
    /\ Performed("sub.update") /\ Performed("user.update")
    /\ Calls("onGrantAccess") = <<"subscription_trialing">>
    /\ log[Len(log)] = [kind |-> "threw", name |-> "onSubscriptionTrialing", arg |-> ""]
    /\ subscriptions # pre.subs /\ subscriptions[1].status = "trialing"
    /\ ~pre.users["user_1"].hadTrial /\ users["user_1"].hadTrial

\* The records of the event's customer the request found, and those of them
\* with the event's product
OfCustomer == {i \in DOMAIN pre.subs : pre.subs[i].creemCustomerId = request.body.customer}

OfCustomerAndProduct == {i \in OfCustomer : pre.subs[i].productId = request.body.product}

\* The least index of a non-empty set of records
First(indices) == CHOOSE i \in indices : \A j \in indices : i <= j

\* The records this request changed
Changed == {i \in DOMAIN pre.subs : subscriptions[i] # pre.subs[i]}

\* C32: when the subscription-id lookup of a status event finds nothing and
\* records of the event's customer exist, the record updated (persistence on,
\* a referenceId in the metadata, the storage serving the calls) is the first
\* record of that customer whose productId is the event's product id, and if
\* there is none, the first record of that customer; no other record changes.
C32_FallbackSelection ==
    (/\ StatusEventHandled /\ FoundById = {} /\ OfCustomer # {}
     /\ options.persistSubscriptions /\ request.body.referenceId # Undefined
     /\ ~StorageThrew)
    => LET selected == IF OfCustomerAndProduct # {} THEN First(OfCustomerAndProduct)
                       ELSE First(OfCustomer)
       IN  /\ Performed("sub.findMany") /\ Performed("sub.update")
           /\ Changed = {selected}
           /\ subscriptions[selected].creemSubscriptionId = request.body.subId
           /\ subscriptions[selected].status =
                ResolvedStatus(request.body.eventType, request.body)

\* C32's case: cus_1 holds prod_2 (record 1) and prod_1 twice (records 2, 3);
\* an event for the unknown sub_2 of cus_1 and prod_1 has updated record 2
C32_Witness ==
    /\ StatusEventHandled /\ Performed("sub.update")
    /\ request.body.subId = "sub_2" /\ FoundById = {}
    /\ request.body.customer = "cus_1" /\ request.body.product = "prod_1"
    /\ OfCustomer = {1, 2, 3} /\ OfCustomerAndProduct = {2, 3}
    /\ Changed = {2}
    /\ subscriptions[2].creemSubscriptionId = "sub_2"

\* C33: frame of a subscription-status event: it modifies at most one
\* subscription record, the one its lookup selected; every other record and
\* every user field other than hadTrial is unchanged; on the selected record
\* id, productId, referenceId and creemOrderId never change.
C33_StatusEventFrame ==
    StatusEventHandled
    => /\ Len(subscriptions) = Len(pre.subs)
       /\ Cardinality(Changed) <= 1
       /\ \A i \in Changed :
            /\ i = IF FoundById # {} THEN First(FoundById)
                   ELSE IF OfCustomerAndProduct # {} THEN First(OfCustomerAndProduct)
                   ELSE First(OfCustomer \cup {Len(pre.subs) + 1})
            /\ subscriptions[i].id = pre.subs[i].id
            /\ subscriptions[i].productId = pre.subs[i].productId
            /\ subscriptions[i].referenceId = pre.subs[i].referenceId
            /\ subscriptions[i].creemOrderId = pre.subs[i].creemOrderId
       /\ \A u \in DOMAIN users :
            users[u].creemCustomerId = pre.users[u].creemCustomerId
       /\ DOMAIN users = DOMAIN pre.users

\* C33's case: subscription.trialing for sub_1 changed record 2 of three, in
\* status and period only, and set hadTrial of user_1
C33_Witness ==
    /\ StatusEventHandled /\ request.body.eventType = "subscription.trialing"
    /\ request.body.subId = "sub_1" /\ request.body.end = Mar1
    /\ Len(pre.subs) = 3 /\ Changed = {2}
    /\ subscriptions[2].status = "trialing"
    /\ subscriptions[2].periodEnd = <<1740787200>>
    /\ subscriptions[2].creemOrderId = "ord_1"
    /\ ~pre.users["user_1"].hadTrial /\ users["user_1"].hadTrial

\* C34: a subscription-status event for subscription S never modifies a
\* record whose stored provider subscription id is a different, already
\* recorded subscription: such a record keeps its subscription id and its
\* status, also when both subscriptions belong to one customer.
C34_OtherSubscriptionUntouched ==
    StatusEventHandled
    => \A i \in DOMAIN pre.subs :
            (/\ pre.subs[i].creemSubscriptionId # Undefined
             /\ pre.subs[i].creemSubscriptionId # request.body.subId)
            => /\ subscriptions[i].creemSubscriptionId = pre.subs[i].creemSubscriptionId
               /\ subscriptions[i].status = pre.subs[i].status

\* A verified event that its hook cannot correlate: a subscription-status
\* event without metadata.referenceId, or a checkout.completed event without
\* a customer id or without metadata.referenceId
Uncorrelated ==
    /\ Handled /\ Authentic /\ Parses
    /\ \/ /\ request.body.eventType \in StatusEventTypes
          /\ request.body.referenceId = Undefined
       \/ /\ request.body.eventType = "checkout.completed"
          /\ request.body.customer = Undefined \/ request.body.referenceId = Undefined

\* Such an event makes no storage call, and none of its tables changes
NoStorageAccess == Entries("adapter") = <<>> /\ Tables = pre

\* The configured access callback of the event type was invoked, once, with
\* its reason
SignalInvoked ==
    LET signal == AccessSignal(request.body.eventType)
    IN  (signal.name # "none" /\ signal.name \in options.callbacks)
        => Calls(signal.name) = <<signal.reason>>

\* The configured callback of the event type was invoked, once
EventCallbackInvoked ==
    EventCallback(request.body.eventType) \in options.callbacks
    => Len(Calls(EventCallback(request.body.eventType))) = 1

AccessCallbackThrew ==
    \E i \in DOMAIN log : log[i].kind = "threw" /\ log[i].name \in AccessCallbacks

\* C35 as stated: a subscription-status event without metadata.referenceId
\* performs no storage access at all, a checkout.completed event lacking a
\* customer id or metadata.referenceId performs no storage write, and the
\* grant/revoke signal and the event callback are still invoked.
C35_UncorrelatedStillNotified ==
    Uncorrelated => (NoStorageAccess /\ SignalInvoked /\ EventCallbackInvoked)

\* C35, amended: a subscription-status event without metadata.referenceId
\* performs no storage access at all, a checkout.completed event lacking a
\* customer id or metadata.referenceId performs no storage access either, and
\* the grant/revoke callback is still invoked; the event callback is invoked
\* after it unless the grant/revoke callback threw.
C35_UncorrelatedNotifiedUnlessSignalThrows ==
    Uncorrelated
    => /\ NoStorageAccess
       /\ SignalInvoked
       /\ IF AccessCallbackThrew
          THEN Calls(EventCallback(request.body.eventType)) = <<>>
          ELSE EventCallbackInvoked

\* C35's case: subscription.trialing for the recorded sub_1 without a
\* referenceId: no storage call, the record and the user as they were, both
\* callbacks invoked
C35_Witness ==
    /\ Uncorrelated /\ Ok200
    /\ request.body.eventType = "subscription.trialing"
    /\ request.body.subId = "sub_1" /\ FoundById = {1}
    /\ Entries("adapter") = <<>> /\ Tables = pre
    /\ Calls("onGrantAccess") = <<"subscription_trialing">>
    /\ Calls("onSubscriptionTrialing") = <<"subscription.trialing">>

\* C36: on subscription.trialing the trial guard runs after the reconciler
\* has finished and whatever its outcome: when the referenced user exists
\* (persistence on, the guard's own storage calls served), hadTrial is true
\* afterwards, also when the reconciler found no record or its storage calls
\* threw; every storage call of the guard follows every call of the reconciler.
C36_TrialGuardAfterReconciler ==
    LET r == request.body.referenceId IN
    (/\ StatusEventHandled /\ request.body.eventType = "subscription.trialing"
     /\ options.persistSubscriptions /\ r \in DOMAIN pre.users
     /\ ~Threw("user.findOne") /\ ~Threw("user.update"))
    => /\ users[r].hadTrial
       /\ Performed("user.findOne")
       /\ \A i, j \in DOMAIN log :
            (/\ log[i].kind = "adapter"
             /\ log[i].name \in {"sub.findOne", "sub.findMany", "sub.update"}
             /\ log[j].kind = "adapter"
             /\ log[j].name \in {"user.findOne", "user.update"}) => i < j

\* C36's case: the reconciler's lookup threw, no record changed, and the
\* guard set hadTrial of user_1
C36_Witness ==
    /\ StatusEventHandled /\ request.body.eventType = "subscription.trialing"
    /\ Threw("sub.findOne") /\ subscriptions = pre.subs
    /\ Performed("user.update")
    /\ ~pre.users["user_1"].hadTrial /\ users["user_1"].hadTrial

\* C37: if the grant/revoke callback throws while an event is processed, the
\* event-specific callback of that event is not invoked, the answer is 500
\* "Failed to process webhook", and the writes the hook made for the event
\* remain stored.
C37_AccessCallbackThrows ==
    (Handled /\ Authentic /\ Parses /\ AccessCallbackThrew)
    => /\ Calls(EventCallback(request.body.eventType)) = <<>>
       /\ log[Len(log)].kind = "threw" /\ log[Len(log)].name \in AccessCallbacks
       /\ Failed500
       /\ \E c \in HookOutcomes :
            /\ c.log = SubSeq(log, 1, Len(log) - 2)
            /\ c.subs = subscriptions /\ c.users = users

\* C37's case: subscription.paid moved the record of sub_1 to
\* scheduled_cancel, onGrantAccess threw, onSubscriptionPaid was not invoked,
\* the answer is 500 and the record is still scheduled_cancel
C37_Witness ==
    /\ StatusEventHandled /\ request.body.eventType = "subscription.paid"
    /\ Performed("sub.update")
    /\ log[Len(log)] = [kind |-> "threw", name |-> "onGrantAccess", arg |-> ""]
    /\ Calls("onSubscriptionPaid") = <<>>
    /\ Failed500
    /\ pre.subs[1].status = "active" /\ subscriptions[1].status = "scheduled_cancel"

\* parseWebhookEvent threw: the handler went from the parse to its catch
ParseError ==
    /\ log = <<LogEntry("parse", "parseWebhookEvent", "")>>
    /\ Failed500

\* C38: the event parser accepts a payload exactly when it is a JSON object
\* whose eventType is a non-empty string, id is a string, created_at is a
\* number and object carries one of the eight entity discriminators; every
\* other payload raises a parse error, after which no storage write and no
\* callback occurs.
C38_ParserAcceptsExactly ==
    LET b == request.body
        shaped == /\ b.json
                  /\ b.eventType # Undefined /\ b.eventType # ""
                  /\ b.id # Undefined
                  /\ b.created_at # <<>>
                  /\ b.object \in EntityKinds
    IN  (Handled /\ Authentic)
        => /\ ParseError <=> ~shaped
           /\ ParseError => Tables = pre

====
